---- MODULE Spec2Model ----
(***************************************************************************)
(* Elementwise GPU kernel dispatch of ATen (native/cuda/Loops.cuh):        *)
(* gpu_kernel, gpu_kernel_with_scalars and gpu_kernel_with_index, the      *)
(* legacy (strided) and modern (contiguous) elementwise kernels, and the   *)
(* device memory they read and write.                                      *)
(*                                                                         *)
(* Memory is byte addressed.  An operand of the iterator is a base         *)
(* address, byte strides per dimension, an element type and a device.      *)
(* Operand i of the C++ code (0-based) is ops[i+1] here.                   *)
(***************************************************************************)
EXTENDS Integers, Sequences, FiniteSets, TLC

\* ------------------------------------------------------------------ bounds

\* Largest element count one launch can index.  The code's value is
\* std::numeric_limits<int32_t>::max(); the model scales it down so that
\* iteration spaces on both sides of it are enumerable.
IndexMax == 4

\* Largest extent of a one-dimensional iteration space.
MaxExtent == 5

\* Largest extent of a dimension of a two-dimensional iteration space.
MaxExtent2 == 3

\* Number of operand buffers memory has room for.
MaxOperands == 4

\* Largest number of bytes in one chunk a Pickler passes to its writer.
MaxChunkLen == 2

\* ------------------------------------------------------- program constants

launch_size_1d == 512
launch_size_nd == 128
launch_bound2 == 4
C10_WARP_SIZE == 32

\* std::numeric_limits<int32_t>::max()
Int32Max == 2147483647

\* Values a char of memory holds.
ByteMod == 2 ^ 8

\* ------------------------------------------------------------ scalar types

ScalarTypes == {"u8", "u16"}

\* sizeof(T)
elementSize(t) == IF t = "u8" THEN 1 ELSE 2

\* Number of values of a type.
TypeRange(t) == ByteMod ^ elementSize(t)

\* static_cast<T>(v) between unsigned integer types: reduction modulo 2^bits.
static_cast(t, v) == v % TypeRange(t)

Max(a, b) == IF a >= b THEN a ELSE b

\* ------------------------------------------------------ integers of the code
\* An int64_t value, and the exact value of an expression over them, is
\* hi * 2^31 + lo with 0 <= lo < 2^31.

Wide(hi, lo) == [hi |-> hi, lo |-> lo]

\* The value of an int.
wide_of(x) == IF x >= 0 THEN Wide(0, x) ELSE Wide(-1, (x + Int32Max) + 1)

\* a + b
wide_add(a, b) ==
    IF a.lo <= Int32Max - b.lo
    THEN Wide(a.hi + b.hi, a.lo + b.lo)
    ELSE Wide(a.hi + b.hi + 1, ((a.lo - Int32Max) - 1) + b.lo)

RECURSIVE wide_times(_, _)
\* a * n for n >= 0
wide_times(a, n) ==
    IF n = 0 THEN Wide(0, 0)
    ELSE LET h == wide_times(a, n \div 2)
             d == wide_add(h, h)
         IN  IF n % 2 = 1 THEN wide_add(d, a) ELSE d

\* a * n for n >= 0, the smaller factor being the multiplier.
wide_mul(a, n) ==
    IF a.hi = 0 /\ a.lo < n THEN wide_times(wide_of(n), a.lo) ELSE wide_times(a, n)

\* The value is one an int holds.
fits_int(w) == w.hi \in {-1, 0}

\* Conversion to int: the low 32 bits, as a signed value.
to_int(w) == IF w.hi % 2 = 0 THEN w.lo ELSE (w.lo - Int32Max) - 1

\* int a * b for b >= 0, as the offset added to a pointer.  Signed overflow
\* is undefined: the product wraps to 32 bits, or is taken at the width of
\* the pointer.
int_mul(a, b) ==
    LET exact == wide_mul(wide_of(a), b)
    IN  IF fits_int(exact) THEN {exact} ELSE {wide_of(to_int(exact)), exact}

\* ------------------------------------------------------------------ memory

RECURSIVE LoadBytes(_, _, _)
\* The little-endian value of the n bytes of m at address a.
LoadBytes(m, a, n) ==
    IF n = 0 THEN 0 ELSE m[a] + ByteMod * LoadBytes(m, a + 1, n - 1)

\* *(T*)ptr
Load(m, t, a) == LoadBytes(m, a, elementSize(t))

\* Byte j of value v.
ByteOf(v, j) == (v \div (ByteMod ^ j)) % ByteMod

\* *(T*)ptr = v, on the execution state st = [mem, wcount, calls]:
\* wcount counts the stores made to each byte.
Store(st, t, a, v) ==
    LET span == a .. (a + elementSize(t) - 1)
    IN  [st EXCEPT
           !.mem = [x \in DOMAIN st.mem |->
                      IF x \in span THEN ByteOf(v, x - a) ELSE st.mem[x]],
           !.wcount = [x \in DOMAIN st.wcount |->
                      IF x \in span THEN st.wcount[x] + 1 ELSE st.wcount[x]]]

\* c10::fetch_and_cast<dest_t>(src_type, ptr)
fetch_and_cast(m, dest_t, src_type, a) == static_cast(dest_t, Load(m, src_type, a))

\* c10::cast_and_store<src_t>(dest_type, ptr, value)
cast_and_store(st, dest_type, a, v) == Store(st, dest_type, a, static_cast(dest_type, v))

\* ------------------------------------------------------------- functions f

\* A function value: the body `base`, the element types of its memory-bound
\* arguments, its result type, whether its last argument is the linear
\* index, and (for the lambdas gpu_kernel_with_scalars derives) the captured
\* scalar: bind = 1 captures the first argument of base, bind = 2 the second.
MkFunc(base, args, res, indexed) ==
    [base |-> base, args |-> args, res |-> res, indexed |-> indexed,
     bind |-> 0, val |-> 0]

\* function_traits<func_t>::arity
Arity(f) == Len(f.args) + (IF f.indexed THEN 1 ELSE 0)

\* The bodies.  "lin" is not commutative.
BaseEval(base, xs) ==
    CASE base = "const" -> 42
      [] base = "succ"  -> 3 * xs[1] + 1
      [] base = "lin"   -> xs[1] + 3 * xs[2] + 1
      [] base = "iota"  -> 5 * xs[1] + 2
      [] base = "addi"  -> xs[1] + 7 * xs[2] + 1
      [] base = "lini"  -> xs[1] + 3 * xs[2] + 7 * xs[3]

\* f(xs...): the captured scalar is put back at its position, and the value
\* returned has the result type.
Apply(f, xs) ==
    LET full == CASE f.bind = 1 -> <<f.val>> \o xs
                  [] f.bind = 2 -> xs \o <<f.val>>
                  [] OTHER -> xs
    IN  static_cast(f.res, BaseEval(f.base, full))

\* ---------------------------------------------------- the TensorIterator
\* An iterator is [shape, ops, cast]: the extents of the iteration space
\* (dimension 1 is the fastest), the operands (output first) and whether
\* dynamic casting is required.  An operand is [data, strides, dtype,
\* device] with one byte stride per dimension.

ntensors(it) == Len(it.ops)

ndim(it) == Len(it.shape)

RECURSIVE Product(_)
Product(s) == IF s = <<>> THEN 1 ELSE Head(s) * Product(Tail(s))

numel(it) == Product(it.shape)

data_ptr(it, arg) == it.ops[arg + 1].data

scalar_type(it, arg) == it.ops[arg + 1].dtype

is_cuda(it, arg) == it.ops[arg + 1].device = "cuda"

is_trivial_1d(it) == ndim(it) = 1

get_inner_strides(it) ==
    [i \in 1..ntensors(it) |->
       IF ndim(it) = 0 THEN 0 ELSE it.ops[i].strides[1]]

has_contiguous_first_dim(it) ==
    \A i \in 1..ntensors(it) :
       it.ops[i].strides[1] = elementSize(it.ops[i].dtype)

needs_dynamic_casting(it) == it.cast

can_use_32bit_indexing(it) == numel(it) <= IndexMax

\* The operand covers one element: every dimension has extent 1 or stride 0.
is_scalar(it, arg) ==
    \A d \in 1..ndim(it) :
       it.shape[d] = 1 \/ it.ops[arg + 1].strides[d] = 0

is_cpu_scalar(it, arg) == is_scalar(it, arg) /\ ~is_cuda(it, arg)

\* iter.scalar_value<T>(arg)
scalar_value(m, t, it, arg) ==
    fetch_and_cast(m, t, scalar_type(it, arg), data_ptr(it, arg))

\* iter.remove_operand(arg)
remove_operand(it, arg) ==
    [it EXCEPT !.ops = SubSeq(it.ops, 1, arg) \o SubSeq(it.ops, arg + 2, Len(it.ops))]

\* The part start .. start+size-1 of dimension dim.
narrow(it, dim, start, size) ==
    [it EXCEPT
       !.shape[dim] = size,
       !.ops = [i \in 1..Len(it.ops) |->
                  [it.ops[i] EXCEPT !.data = @ + it.ops[i].strides[dim] * start]]]

\* The dimension a split halves: one of largest extent.
dim_to_split(it) ==
    CHOOSE d \in 1..ndim(it) :
       \A e \in 1..ndim(it) :
          it.shape[d] > it.shape[e] \/ (it.shape[d] = it.shape[e] /\ d >= e)

RECURSIVE with_32bit_indexing(_)
\* iter.with_32bit_indexing(): the sub-iterators, in the order the
\* range-for visits them.  Each can use 32-bit indexing; together they
\* partition the iteration space.
with_32bit_indexing(it) ==
    IF can_use_32bit_indexing(it) THEN <<it>>
    ELSE LET d == dim_to_split(it)
             lo == it.shape[d] \div 2
         IN  with_32bit_indexing(narrow(it, d, 0, lo))
               \o with_32bit_indexing(narrow(it, d, lo, it.shape[d] - lo))

\* ------------------------------------------------------- OffsetCalculator

RECURSIVE Coords(_, _)
\* The coordinates of linear index k in a space of the given extents.
Coords(shape, k) ==
    IF shape = <<>> THEN <<>>
    ELSE <<k % Head(shape)>> \o Coords(Tail(shape), k \div Head(shape))

RECURSIVE Dot(_, _)
Dot(xs, ys) ==
    IF xs = <<>> THEN 0 ELSE Head(xs) * Head(ys) + Dot(Tail(xs), Tail(ys))

\* legacy::make_offset_calculator<N>(iter); the assertion N == ntensors is
\* the caller's (it has just been checked by the caller's own assertion).
make_offset_calculator(it) ==
    [sizes |-> it.shape,
     strides |-> [i \in 1..ntensors(it) |-> it.ops[i].strides]]

\* offset_calc.get(idx): one byte offset per operand.
offset_calc_get(oc, idx) ==
    [i \in 1..Len(oc.strides) |-> Dot(Coords(oc.sizes, idx), oc.strides[i])]

\* ----------------------------------------------------- invocation adapters
\* Each returns the arguments passed to f and f's result.  data, strides
\* and dtypes are those of the inputs (&data.data[1], ...).

invoke(f, m, data, strides, i) ==
    LET xs == [j \in 1..Arity(f) |-> Load(m, f.args[j], data[j] + i * strides[j])]
    IN  [args |-> xs, result |-> Apply(f, xs)]

invoke_dtypes(f, m, data, strides, dtypes, i) ==
    LET xs == [j \in 1..Arity(f) |->
                 fetch_and_cast(m, f.args[j], dtypes[j], data[j] + i * strides[j])]
    IN  [args |-> xs, result |-> Apply(f, xs)]

\* Fault variant of invoke_with_index: the element offset i is handed to f
\* in place of the linear index idx.
invoke_with_index_offset(f, m, data, strides, i, idx) ==
    LET xs == [j \in 1..(Arity(f) - 1) |->
                 Load(m, f.args[j], data[j] + i * strides[j])]
    IN  [args |-> xs \o <<i>>, result |-> Apply(f, xs \o <<i>>)]

invoke_with_index(f, m, data, strides, i, idx) ==
    LET xs == [j \in 1..(Arity(f) - 1) |->
                 Load(m, f.args[j], data[j] + i * strides[j])]
    IN  [args |-> xs \o <<idx>>, result |-> Apply(f, xs \o <<idx>>)]

invoke_with_index_dtypes(f, m, data, strides, dtypes, i, idx) ==
    LET xs == [j \in 1..(Arity(f) - 1) |->
                 fetch_and_cast(m, f.args[j], dtypes[j], data[j] + i * strides[j])]
    IN  [args |-> xs \o <<idx>>, result |-> Apply(f, xs \o <<idx>>)]

\* ----------------------------------------------------------------- kernels
\* A kernel as enqueued: the template arguments nt and vt, the launch
\* geometry, and what the kernel function captured by value.  `lambda`
\* names the element function of a legacy kernel by the place that built
\* it.  The execution state is st = [mem, wcount, calls]; calls lists the
\* invocations of f: [idx, args, out].

Log(st, idx, args, out) ==
    [st EXCEPT !.calls = Append(@, [idx |-> idx, args |-> args, out |-> out])]

\* The element functions legacy::launch_kernel is given by gpu_kernel_impl
\* and gpu_kernel_with_index_impl, applied to idx.
run_lambda(K, st, idx) ==
    LET in_data == Tail(K.data)
        in_dtypes == Tail(K.dtypes)
        offsets == offset_calc_get(K.oc, idx)
        out1d == K.data[1] + K.strides[1] * idx
        outnd == K.data[1] + offsets[1]
    IN  CASE K.lambda = "impl_1d_cast" ->
               LET r == invoke_dtypes(K.f, st.mem, in_data, Tail(K.strides), in_dtypes, idx)
               IN  Log(cast_and_store(st, K.dtypes[1], out1d, r.result), idx, r.args, out1d)
          [] K.lambda = "impl_1d" ->
               LET r == invoke(K.f, st.mem, in_data, Tail(K.strides), idx)
               IN  Log(Store(st, K.f.res, out1d, r.result), idx, r.args, out1d)
          [] K.lambda = "impl_nd_cast" ->
               LET r == invoke_dtypes(K.f, st.mem, in_data, Tail(offsets), in_dtypes, 1)
               IN  Log(cast_and_store(st, K.dtypes[1], outnd, r.result), idx, r.args, outnd)
          [] K.lambda = "impl_nd" ->
               LET r == invoke(K.f, st.mem, in_data, Tail(offsets), 1)
               IN  Log(Store(st, K.f.res, outnd, r.result), idx, r.args, outnd)
          [] K.lambda = "index_1d_cast" ->
               LET r == invoke_with_index_dtypes(K.f, st.mem, in_data, Tail(K.strides),
                                                 in_dtypes, idx, idx)
               IN  Log(cast_and_store(st, K.dtypes[1], out1d, r.result), idx, r.args, out1d)
          [] K.lambda = "index_1d" ->
               LET r == invoke_with_index(K.f, st.mem, in_data, Tail(K.strides), idx, idx)
               IN  Log(Store(st, K.f.res, out1d, r.result), idx, r.args, out1d)
          [] K.lambda = "index_nd_cast" ->
               LET r == invoke_with_index_dtypes(K.f, st.mem, in_data, Tail(offsets),
                                                 in_dtypes, 1, idx)
               IN  Log(cast_and_store(st, K.dtypes[1], outnd, r.result), idx, r.args, outnd)
          [] K.lambda = "index_nd" ->
               LET r == invoke_with_index(K.f, st.mem, in_data, Tail(offsets), 1, idx)
               IN  Log(Store(st, K.f.res, outnd, r.result), idx, r.args, outnd)

RECURSIVE legacy_loop(_, _, _, _)
\* The loop of legacy::elementwise_kernel from iteration i on, for one
\* thread: f(idx) and idx += nt while idx < N.
legacy_loop(K, st, i, idx) ==
    IF i >= K.vt THEN st
    ELSE IF idx < K.N THEN legacy_loop(K, run_lambda(K, st, idx), i + 1, idx + K.nt)
    ELSE legacy_loop(K, st, i + 1, idx)

\* legacy::elementwise_kernel<nt, vt>(N, f) in thread tid of block blk.
legacy_elementwise_kernel(K, st, blk, tid) ==
    LET nv == K.nt * K.vt
        idx == nv * blk + tid
    IN  legacy_loop(K, st, 0, idx)

RECURSIVE modern_store(_, _, _, _, _)
\* The third loop of modern::elementwise_kernel: store data.
modern_store(K, st, results, idx, i) ==
    IF i >= K.vt THEN st
    ELSE IF idx + K.nt * i < K.N
         THEN modern_store(K,
                 Log(Store(st, K.f.res,
                           K.data[1] + (idx + i * K.nt) * elementSize(K.f.res),
                           results[i].result),
                     idx + K.nt * i, results[i].args,
                     K.data[1] + (idx + i * K.nt) * elementSize(K.f.res)),
                 results, idx, i + 1)
         ELSE modern_store(K, st, results, idx, i + 1)

\* modern::elementwise_kernel<nt, vt>(N, f, data) in thread tid of block
\* blk: every input is addressed as an array of arg_t, the type of f's
\* first argument; the loaded arg_t values are passed to f.
modern_elementwise_kernel(K, st, blk, tid) ==
    LET arity == Arity(K.f)
        arg_t == IF arity = 0 THEN "u8" ELSE K.f.args[1]
        nv == K.nt * K.vt
        idx == nv * blk + tid
        result_base == K.data[1] + idx * elementSize(K.f.res)
        args_base == [j \in 1..arity |-> K.data[j + 1] + idx * elementSize(arg_t)]
        live == {i \in 0..(K.vt - 1) : idx + K.nt * i < K.N}
        args == [i \in live |->
                   [j \in 1..arity |->
                      Load(st.mem, arg_t, args_base[j] + i * K.nt * elementSize(arg_t))]]
        results == [i \in live |->
                      LET xs == [j \in 1..arity |-> static_cast(K.f.args[j], args[i][j])]
                      IN  [args |-> xs, result |-> Apply(K.f, xs)]]
    IN  modern_store(K, st, results, idx, 0)

\* One thread of the kernel.
run_thread(K, st, blk, tid) ==
    IF K.kernel = "modern" THEN modern_elementwise_kernel(K, st, blk, tid)
    ELSE legacy_elementwise_kernel(K, st, blk, tid)

\* The threads of the grid whose first index is below N; the others pass
\* no guard of either kernel and touch nothing.
LiveThreads(K) ==
    {u \in (0..(K.grid - 1)) \X (0..(K.nt - 1)) : K.nt * K.vt * u[1] + u[2] < K.N}

RECURSIVE run_threads(_, _, _)
\* The threads of a kernel, run one after another.
run_threads(K, st, todo) ==
    IF todo = {} THEN st
    ELSE LET u == CHOOSE u \in todo :
                     \A v \in todo : u[1] < v[1] \/ (u[1] = v[1] /\ u[2] <= v[2])
         IN  run_threads(K, run_thread(K, st, u[1], u[2]), todo \ {u})

\* The effect of a whole kernel.
run_kernel(K, st) == run_threads(K, st, LiveThreads(K))

\* ------------------------------------------------------------------ launch
\* A launch yields [fail, kernels, ops]: the assertion that failed ("" when
\* none did), the kernels enqueued on the current stream (none or one) and
\* the operations made on the stream, in order.

Failed(what) == [fail |-> what, kernels |-> <<>>, ops |-> <<>>]

NoOc == [sizes |-> <<>>, strides |-> <<>>]

\* What a kernel captures by value: the element function of a legacy
\* kernel (named by `lambda`) with f, data, strides or offset calculator
\* and dtypes; f and data for the modern kernel.
Capture(lambda, f, data, strides, dtypes, oc) ==
    [lambda |-> lambda, f |-> f, data |-> data, strides |-> strides,
     dtypes |-> dtypes, oc |-> oc]

\* dim3 grid((N + block.x * vt - 1) / (block.x * vt)), N an int64_t: the
\* quotient rounded up, written without the 64-bit intermediate sum.
launch_grid(nt, vt, N) ==
    N \div (nt * vt) + (IF N % (nt * vt) = 0 THEN 0 ELSE 1)

\* elementwise_kernel<nt, vt><<<grid, block, 0, stream>>>(N, ...): the
\* kernel as enqueued, with dim3 block(nt) and the grid computed from N.
enqueue(kernel, nt, vt, N, c) ==
    [kernel |-> kernel, nt |-> nt, vt |-> vt, N |-> N,
     grid |-> launch_grid(nt, vt, N),
     lambda |-> c.lambda, f |-> c.f, data |-> c.data,
     strides |-> c.strides, dtypes |-> c.dtypes, oc |-> c.oc]

\* Fault variant of launch_ops: the error check is left out.
launch_ops_unchecked == <<"enqueue">>

\* What a launch does on the current stream once N has passed its tests:
\* elementwise_kernel<<<grid, block, 0, stream>>>(...);
\* AT_CUDA_CHECK(cudaGetLastError());
launch_ops == <<"enqueue", "cudaGetLastError">>

\* legacy::launch_kernel<nt, vt>(N, f), f being the element function.
legacy_launch_kernel(nt, vt, N, c) ==
    IF ~(N >= 0 /\ N <= IndexMax) THEN Failed("launch_kernel: N")
    ELSE IF N = 0 THEN [fail |-> "", kernels |-> <<>>, ops |-> <<>>]
    ELSE [fail |-> "", kernels |-> <<enqueue("legacy", nt, vt, N, c)>>,
          ops |-> launch_ops]

\* modern::launch_kernel<nt, vt>(N, f, data)
modern_launch_kernel(nt, vt, N, c) ==
    IF ~(N >= 0 /\ N <= IndexMax) THEN Failed("launch_kernel: N")
    ELSE IF N = 0 THEN [fail |-> "", kernels |-> <<>>, ops |-> <<>>]
    ELSE [fail |-> "", kernels |-> <<enqueue("modern", nt, vt, N, c)>>,
          ops |-> launch_ops]

\* A launch chosen by gpu_kernel_impl or gpu_kernel_with_index_impl: the
\* launch_kernel called, its template arguments, N and what it is given.
Request(kernel, nt, vt, N, c) ==
    [kernel |-> kernel, nt |-> nt, vt |-> vt, N |-> N, c |-> c]

launch_kernel(req) ==
    IF req.kernel = "modern"
    THEN modern_launch_kernel(req.nt, req.vt, req.N, req.c)
    ELSE legacy_launch_kernel(req.nt, req.vt, req.N, req.c)

\* The arrays data, dtypes and (one-dimensional case) strides that the impl
\* functions fill for their n operands.
impl_data(it, n) == [i \in 1..n |-> data_ptr(it, i - 1)]

impl_dtypes(it, n) == [i \in 1..n |-> scalar_type(it, i - 1)]

impl_strides(it, n) ==
    LET inner_strides == get_inner_strides(it)
    IN  [i \in 1..n |-> to_int(wide_of(inner_strides[i]))]

\* The launches of gpu_kernel_impl, one per branch.
impl_1d_cast(it, f) ==
    LET n == Arity(f) + 1
    IN  Request("legacy", launch_size_1d, 1, numel(it),
                Capture("impl_1d_cast", f, impl_data(it, n), impl_strides(it, n),
                        impl_dtypes(it, n), NoOc))

impl_1d_contiguous(it, f) ==
    LET n == Arity(f) + 1
    IN  Request("modern", C10_WARP_SIZE * 2, 4, numel(it),
                Capture("", f, impl_data(it, n), <<>>, <<>>, NoOc))

impl_1d_strided(it, f) ==
    LET n == Arity(f) + 1
    IN  Request("legacy", launch_size_1d, 1, numel(it),
                Capture("impl_1d", f, impl_data(it, n), impl_strides(it, n),
                        impl_dtypes(it, n), NoOc))

impl_nd(it, f) ==
    LET n == Arity(f) + 1
        offset_calc == make_offset_calculator(it)
    IN  Request("legacy", launch_size_nd, launch_bound2, numel(it),
                Capture(IF needs_dynamic_casting(it) THEN "impl_nd_cast" ELSE "impl_nd",
                        f, impl_data(it, n), <<>>, impl_dtypes(it, n), offset_calc))

\* Fault variant of impl_path: contiguity is tested ahead of casting.
impl_path_contiguous_first(it, f) ==
    IF is_trivial_1d(it)
    THEN IF has_contiguous_first_dim(it) THEN impl_1d_contiguous(it, f)
         ELSE IF needs_dynamic_casting(it) THEN impl_1d_cast(it, f)
         ELSE impl_1d_strided(it, f)
    ELSE impl_nd(it, f)

\* The path gpu_kernel_impl selects.
impl_path(it, f) ==
    IF is_trivial_1d(it)
    THEN IF needs_dynamic_casting(it) THEN impl_1d_cast(it, f)
         ELSE IF has_contiguous_first_dim(it) THEN impl_1d_contiguous(it, f)
         ELSE impl_1d_strided(it, f)
    ELSE impl_nd(it, f)

\* Fault variant of gpu_kernel_impl: the operand count is asserted to be
\* at least, not exactly, the arity plus one.
gpu_kernel_impl_at_least(it, f) ==
    IF ~can_use_32bit_indexing(it) THEN Failed("gpu_kernel_impl: 32-bit indexing")
    ELSE IF ntensors(it) < Arity(f) + 1 THEN Failed("gpu_kernel_impl: ntensors")
    ELSE launch_kernel(impl_path(it, f))

\* gpu_kernel_impl(iter, f)
gpu_kernel_impl(it, f) ==
    IF ~can_use_32bit_indexing(it) THEN Failed("gpu_kernel_impl: 32-bit indexing")
    ELSE IF ntensors(it) # Arity(f) + 1 THEN Failed("gpu_kernel_impl: ntensors")
    ELSE launch_kernel(impl_path(it, f))

\* The path gpu_kernel_with_index_impl selects.
index_path(it, f) ==
    LET n == Arity(f)
    IN  IF is_trivial_1d(it)
        THEN Request("legacy", launch_size_1d, 1, numel(it),
                Capture(IF needs_dynamic_casting(it) THEN "index_1d_cast" ELSE "index_1d",
                        f, impl_data(it, n), impl_strides(it, n), impl_dtypes(it, n), NoOc))
        ELSE Request("legacy", launch_size_nd, launch_bound2, numel(it),
                Capture(IF needs_dynamic_casting(it) THEN "index_nd_cast" ELSE "index_nd",
                        f, impl_data(it, n), <<>>, impl_dtypes(it, n),
                        make_offset_calculator(it)))

\* gpu_kernel_with_index_impl(iter, f)
gpu_kernel_with_index_impl(it, f) ==
    IF ntensors(it) # Arity(f) THEN Failed("gpu_kernel_with_index_impl: ntensors")
    ELSE launch_kernel(index_path(it, f))

\* ------------------------------------------------------------------ inputs

\* Bytes of one operand's buffer.
RegionSize == Max(4 * MaxExtent, 2 * MaxExtent2 * MaxExtent2)

Addrs == 0 .. (MaxOperands * RegionSize - 1)

\* The contents of memory before the call.
InitMem == [a \in Addrs |-> (37 * a + 11) % ByteMod]

Funcs ==
    {MkFunc("const", <<>>, r, FALSE) : r \in ScalarTypes}
      \cup {MkFunc("succ", <<a>>, r, FALSE) : a \in ScalarTypes, r \in ScalarTypes}
      \cup {MkFunc("lin", <<a, b>>, r, FALSE) :
              a \in ScalarTypes, b \in ScalarTypes, r \in ScalarTypes}

BinaryFuncs == {f \in Funcs : Arity(f) = 2}

IndexFuncs ==
    {MkFunc("iota", <<>>, r, TRUE) : r \in ScalarTypes}
      \cup {MkFunc("addi", <<a>>, r, TRUE) : a \in ScalarTypes, r \in ScalarTypes}
      \cup {MkFunc("lini", <<a, b>>, "u8", TRUE) : a \in ScalarTypes, b \in ScalarTypes}

Shapes ==
    {<<>>} \cup {<<n>> : n \in 0..MaxExtent}
      \cup {<<a, b>> : a \in 2..MaxExtent2, b \in 2..MaxExtent2}
      \cup {<<0, 2>>, <<2, 0>>}

\* The byte strides of a layout of elements of size es.
Strides(shape, es, layout) ==
    CASE Len(shape) = 0 -> <<>>
      [] Len(shape) = 1 ->
           CASE layout = "packed" -> <<es>>
             [] layout = "strided" -> <<2 * es>>
             [] OTHER -> <<0>>
      [] OTHER ->
           CASE layout = "packed" -> <<es, es * shape[1]>>
             [] layout = "strided" -> <<es * shape[2], es>>
             [] layout = "bcast" -> <<0, es>>
             [] layout = "bcast_outer" -> <<es, 0>>
             [] OTHER -> <<0, 0>>

\* Layouts of an input that is not packed; "scalar" is a single element.
InputLayouts(shape) ==
    CASE Len(shape) = 0 -> {}
      [] Len(shape) = 1 -> {"strided", "bcast"}
      [] OTHER -> {"strided", "bcast", "bcast_outer"}

\* Layouts of n operands: all packed, all strided, or one operand not
\* packed.  The output (operand 1) is never broadcast: its elements are
\* distinct.
LayoutChoices(shape, n) ==
    {[i \in 1..n |-> "packed"]}
      \cup (IF Len(shape) = 0 THEN {} ELSE {[i \in 1..n |-> "strided"]})
      \cup {[i \in 1..n |-> IF i = 1 THEN "strided" ELSE "packed"] :
              x \in InputLayouts(shape)}
      \cup {[i \in 1..n |-> IF i = p THEN l ELSE "packed"] :
              p \in 2..n, l \in InputLayouts(shape)}

Other(t) == IF t = "u8" THEN "u16" ELSE "u8"

\* The element types f reads its operands as: result, then arguments.
StaticTypes(f) == <<f.res>> \o f.args

\* The element types of n operands that need no casting for f (an operand
\* f has no argument for is u8).
MatchingTypes(f, n) ==
    [i \in 1..n |-> IF i <= Len(StaticTypes(f)) THEN StaticTypes(f)[i] ELSE "u8"]

\* ... and those where one operand has another type, which needs casting.
CastingTypes(f, n) ==
    {[MatchingTypes(f, n) EXCEPT ![p] = Other(@)] : p \in 1..n}

MkIter(shape, types, layouts, devices, cast) ==
    [shape |-> shape,
     ops |-> [i \in 1..Len(types) |->
                [data |-> (i - 1) * RegionSize,
                 strides |-> Strides(shape, elementSize(types[i]), layouts[i]),
                 dtype |-> types[i],
                 device |-> devices[i]]],
     cast |-> cast]

AllCuda(n) == [i \in 1..n |-> "cuda"]

\* Iterators on the device with as many operands as f needs: every layout
\* without casting, and the packed and strided layouts with casting.
DeviceIters(f, n) ==
    UNION {{MkIter(sh, MatchingTypes(f, n), l, AllCuda(n), FALSE) :
              l \in LayoutChoices(sh, n)} : sh \in Shapes}
      \cup {MkIter(sh, t, [i \in 1..n |-> l], AllCuda(n), TRUE) :
              sh \in Shapes, t \in CastingTypes(f, n), l \in {"packed", "strided"}}

\* The packed iterators on the device that need no casting.
PackedIters(f, n) ==
    {MkIter(sh, MatchingTypes(f, n), [i \in 1..n |-> "packed"], AllCuda(n), FALSE) :
        sh \in Shapes}

\* One operand at most is on the host.
DeviceChoices(n) ==
    {AllCuda(n)} \cup {[i \in 1..n |-> IF i = p THEN "cpu" ELSE "cuda"] : p \in 1..n}

\* Functions all of whose types are u8.
PlainFuncs(fs) ==
    {f \in fs : f.res = "u8" /\ \A j \in 1..Len(f.args) : f.args[j] = "u8"}

\* Packed iterators with one operand fewer or more than `need`, or as many,
\* and with one operand at most on the host.
PreconditionIters(f, need) ==
    UNION {{MkIter(sh, MatchingTypes(f, n), [i \in 1..n |-> "packed"], dev, FALSE) :
              sh \in Shapes, dev \in DeviceChoices(n)} :
           n \in {need - 1, need, need + 1} \ {0}}

\* Iterators of a binary f with one input (operand 1 or 2, at position
\* pos = 2 or 3) a host scalar of any type and the others on the device.
ScalarIters(f) ==
    {MkIter(sh,
            [tl.types EXCEPT ![pos] = st],
            [i \in 1..3 |-> IF i = pos THEN "scalar" ELSE tl.layout],
            [i \in 1..3 |-> IF i = pos THEN "cpu" ELSE "cuda"],
            tl.cast) :
        sh \in Shapes, pos \in {2, 3}, st \in ScalarTypes,
        tl \in {[types |-> MatchingTypes(f, 3), layout |-> "packed", cast |-> FALSE],
                [types |-> MatchingTypes(f, 3), layout |-> "strided", cast |-> FALSE],
                [types |-> [MatchingTypes(f, 3) EXCEPT ![1] = Other(@)],
                 layout |-> "packed", cast |-> TRUE]}}

\* Where an operand of gpu_kernel_with_scalars may be: on the device, on
\* the host, or on the host as a scalar.
Placed(shape, types, kinds) ==
    MkIter(shape, types,
           [i \in 1..Len(kinds) |-> IF kinds[i] = "scalar" THEN "scalar" ELSE "packed"],
           [i \in 1..Len(kinds) |-> IF kinds[i] = "cuda" THEN "cuda" ELSE "cpu"],
           FALSE)

\* Iterators of 2, 3 or 4 operands with the output on the device or the
\* host and each input on the device, the host, or a host scalar.
PlacedIters(f) ==
    UNION {{Placed(sh, MatchingTypes(f, n), k) :
              sh \in Shapes,
              k \in {k \in [1..n -> {"cuda", "cpu", "scalar"}] :
                       k[1] # "scalar" /\ (n = 4 => k[4] = "cuda")}} :
           n \in 2..4}

Call(entry, f, it) == [entry |-> entry, f |-> f, it |-> it]

\* The calls made: the entry point, the function and the iterator.
Calls ==
    UNION {{Call("gpu_kernel", f, it) : it \in DeviceIters(f, Arity(f) + 1)} :
           f \in Funcs}
      \cup UNION {{Call("gpu_kernel", f, it) : it \in PreconditionIters(f, Arity(f) + 1)} :
                  f \in PlainFuncs(Funcs)}
      \cup UNION {{Call("gpu_kernel_with_scalars", f, it) :
                     it \in ScalarIters(f) \cup PackedIters(f, 3)} :
                  f \in BinaryFuncs}
      \cup UNION {{Call("gpu_kernel_with_scalars", f, it) : it \in PlacedIters(f)} :
                  f \in PlainFuncs(BinaryFuncs)}
      \cup UNION {{Call("gpu_kernel_with_index", f, it) : it \in DeviceIters(f, Arity(f))} :
                  f \in IndexFuncs}
      \cup UNION {{Call("gpu_kernel_with_index", f, it) :
                     it \in PreconditionIters(f, Arity(f))} :
                  f \in PlainFuncs(IndexFuncs)}

\* ------------------------------------------------------------------- state

VARIABLES
    entry,      \* the entry point called
    func,       \* the function the caller passed
    iter0,      \* the caller's iterator as it was passed
    iter,       \* the caller's iterator
    kfn,        \* the function gpu_kernel is called with
    pc,         \* "call", "gpu_kernel", "returned" or "fatal"
    failure,    \* the assertion that failed, "" when none has
    stack,      \* the activations of gpu_kernel, innermost last
    launches,   \* the kernels enqueued on the stream, in order
    done,       \* how many of them the device has executed
    mem,        \* memory
    wcount,     \* stores made to each byte
    calls,      \* the invocations of f
    stream_ops  \* the operations the host has made on the stream, in order

\* One execution unit (thread) of a launched kernel, followed statement by
\* statement.
VARIABLES
    cfg,        \* the kernel it belongs to: template arguments, profile, N, grid, f
    blockIdx,   \* blockIdx.x
    threadIdx,  \* threadIdx.x
    unit_pc,    \* "idle", "begin", "loop", "fetch", "compute", "store", "done"
    unit_i,     \* the loop variable i
    unit_idx,   \* the local variable idx
    unit_trace, \* what the unit has done: reads, invocations and writes
    unit_offsets \* the byte offsets its element function has computed

\* A call of pickle (torch/csrc/jit/pickle.cpp), followed statement by
\* statement through pickle_stream.
VARIABLES
    tensor_table,   \* the tensor table passed: "null" or "table"
    pickle_pc,      \* "idle", "pickle", the statement of pickle_stream, "returned"
    pickler_calls,  \* the methods of the Pickler called, in order
    writer_calls,   \* the chunks passed to the writer, in order
    data,           \* std::vector<char> data of pickle
    pickled         \* the value pickle has returned, <<>> before it returns

picklevars == <<tensor_table, pickle_pc, pickler_calls, writer_calls, data, pickled>>

hostvars == <<entry, func, iter0, iter, kfn, pc, failure, stack, launches, done,
              mem, wcount, calls, stream_ops>>

unitvars == <<cfg, blockIdx, threadIdx, unit_pc, unit_i, unit_idx, unit_trace,
              unit_offsets>>

vars == <<entry, func, iter0, iter, kfn, pc, failure, stack, launches, done,
          mem, wcount, calls, stream_ops,
          cfg, blockIdx, threadIdx, unit_pc, unit_i, unit_idx, unit_trace,
          unit_offsets,
          tensor_table, pickle_pc, pickler_calls, writer_calls, data, pickled>>

\* No call of pickle is in progress.
PickleIdle ==
    /\ tensor_table = "null"
    /\ pickle_pc = "idle"
    /\ pickler_calls = <<>>
    /\ writer_calls = <<>>
    /\ data = <<>>
    /\ pickled = <<>>

\* No execution unit is followed.
UnitIdle ==
    /\ cfg = [kernel |-> "none"]
    /\ blockIdx = 0
    /\ threadIdx = 0
    /\ unit_pc = "idle"
    /\ unit_i = 0
    /\ unit_idx = 0
    /\ unit_trace = <<>>
    /\ unit_offsets = <<>>

\* An activation of gpu_kernel(it, kfn): at its entry, or in its loop over
\* the sub-iterators `rest` that are still to be dispatched.
Frame(it) == [it |-> it, at |-> "entry", rest |-> <<>>]

Top == stack[Len(stack)]

Pop == SubSeq(stack, 1, Len(stack) - 1)

Init ==
    \E c \in Calls :
       /\ entry = c.entry
       /\ func = c.f
       /\ iter0 = c.it
       /\ iter = c.it
       /\ kfn = c.f
       /\ pc = IF c.entry = "gpu_kernel" THEN "gpu_kernel" ELSE "call"
       /\ stack = IF c.entry = "gpu_kernel" THEN <<Frame(c.it)>> ELSE <<>>
       /\ failure = ""
       /\ launches = <<>>
       /\ done = 0
       /\ mem = InitMem
       /\ wcount = [a \in Addrs |-> 0]
       /\ calls = <<>>
       /\ stream_ops = <<>>
       /\ UnitIdle
       /\ PickleIdle

\* A failed TORCH_INTERNAL_ASSERT: the exception unwinds every activation.
Fatal(what) ==
    /\ pc' = "fatal"
    /\ failure' = what
    /\ stack' = <<>>

\* The innermost activation returns.
Return ==
    /\ stack' = Pop
    /\ pc' = IF Pop = <<>> THEN "returned" ELSE pc
    /\ failure' = failure

\* Fault variant of gpu_kernel_body: the element count is tested ahead of
\* the residency assertion.
gpu_kernel_body_count_first(it, f) ==
    IF numel(it) = 0
    THEN [fail |-> "", kernels |-> <<>>, ops |-> <<>>, subs |-> <<>>]
    ELSE IF \E arg \in 0..(ntensors(it) - 1) : ~is_cuda(it, arg)
    THEN [fail |-> "gpu_kernel: device", kernels |-> <<>>, ops |-> <<>>, subs |-> <<>>]
    ELSE IF ~can_use_32bit_indexing(it)
    THEN [fail |-> "", kernels |-> <<>>, ops |-> <<>>, subs |-> with_32bit_indexing(it)]
    ELSE LET r == gpu_kernel_impl(it, f)
         IN  [fail |-> r.fail, kernels |-> r.kernels, ops |-> r.ops, subs |-> <<>>]

\* Fault variant of gpu_kernel_body: a space beyond the index width is not
\* split.
gpu_kernel_body_no_split(it, f) ==
    IF \E arg \in 0..(ntensors(it) - 1) : ~is_cuda(it, arg)
    THEN [fail |-> "gpu_kernel: device", kernels |-> <<>>, ops |-> <<>>, subs |-> <<>>]
    ELSE IF numel(it) = 0
    THEN [fail |-> "", kernels |-> <<>>, ops |-> <<>>, subs |-> <<>>]
    ELSE LET r == gpu_kernel_impl(it, f)
         IN  [fail |-> r.fail, kernels |-> r.kernels, ops |-> r.ops, subs |-> <<>>]

\* Fault variant of gpu_kernel_body: no early return on an empty space.
gpu_kernel_body_no_empty(it, f) ==
    IF \E arg \in 0..(ntensors(it) - 1) : ~is_cuda(it, arg)
    THEN [fail |-> "gpu_kernel: device", kernels |-> <<>>, ops |-> <<>>, subs |-> <<>>]
    ELSE IF ~can_use_32bit_indexing(it)
    THEN [fail |-> "", kernels |-> <<>>, ops |-> <<>>, subs |-> with_32bit_indexing(it)]
    ELSE LET r == gpu_kernel_impl(it, f)
         IN  [fail |-> r.fail, kernels |-> r.kernels, ops |-> r.ops, subs |-> <<>>]

\* gpu_kernel(iter, f) up to its loop: [fail, kernels, subs], the failed
\* assertion, the kernels enqueued and the sub-iterators to dispatch.
gpu_kernel_body(it, f) ==
    IF \E arg \in 0..(ntensors(it) - 1) : ~is_cuda(it, arg)
    THEN [fail |-> "gpu_kernel: device", kernels |-> <<>>, ops |-> <<>>, subs |-> <<>>]
    ELSE IF numel(it) = 0
    THEN [fail |-> "", kernels |-> <<>>, ops |-> <<>>, subs |-> <<>>]
    ELSE IF ~can_use_32bit_indexing(it)
    THEN [fail |-> "", kernels |-> <<>>, ops |-> <<>>, subs |-> with_32bit_indexing(it)]
    ELSE LET r == gpu_kernel_impl(it, f)
         IN  [fail |-> r.fail, kernels |-> r.kernels, ops |-> r.ops, subs |-> <<>>]

\* gpu_kernel: the innermost activation runs from its entry to its return,
\* its failure, or the head of its loop.
gpu_kernel ==
    /\ pc = "gpu_kernel"
    /\ stack # <<>>
    /\ Top.at = "entry"
    /\ LET r == gpu_kernel_body(Top.it, kfn)
       IN  /\ stream_ops' = stream_ops \o r.ops
           /\ IF r.fail # "" THEN Fatal(r.fail) /\ UNCHANGED launches
              ELSE IF r.subs # <<>>
              THEN /\ stack' = [stack EXCEPT ![Len(stack)] =
                                  [it |-> Top.it, at |-> "loop", rest |-> r.subs]]
                   /\ UNCHANGED <<pc, failure, launches>>
              ELSE /\ launches' = launches \o r.kernels
                   /\ Return
    /\ UNCHANGED <<entry, func, iter0, iter, kfn, done, mem, wcount, calls>>
    /\ UNCHANGED unitvars
    /\ UNCHANGED picklevars

\* The sub-iterators left once the loop has taken the next one.
loop_advance(rest) == Tail(rest)

\* for (auto& sub_iter : iter.with_32bit_indexing()) gpu_kernel(sub_iter, f);
\* return;
gpu_kernel_loop ==
    /\ pc = "gpu_kernel"
    /\ stack # <<>>
    /\ Top.at = "loop"
    /\ IF Top.rest = <<>>
       THEN Return
       ELSE /\ stack' = Append([stack EXCEPT ![Len(stack)].rest = loop_advance(@)],
                               Frame(Head(Top.rest)))
            /\ UNCHANGED <<pc, failure>>
    /\ UNCHANGED <<entry, func, iter0, iter, kfn, launches, done, mem, wcount, calls,
                   stream_ops>>
    /\ UNCHANGED unitvars
    /\ UNCHANGED picklevars

\* Fault variant of gpu_kernel_with_scalars_body: the scalar is bound to the
\* other argument of f.
gpu_kernel_with_scalars_body_swapped(it, f, m) ==
    IF ntensors(it) # 3
    THEN [fail |-> "gpu_kernel_with_scalars: ntensors", it |-> it, f |-> f]
    ELSE IF is_cpu_scalar(it, 1)
    THEN LET a == scalar_value(m, f.args[2], it, 1)
         IN  [fail |-> "", it |-> remove_operand(it, 1),
              f |-> [f EXCEPT !.bind = 2, !.val = a, !.args = <<f.args[1]>>]]
    ELSE IF is_cpu_scalar(it, 2)
    THEN LET b == scalar_value(m, f.args[1], it, 2)
         IN  [fail |-> "", it |-> remove_operand(it, 2),
              f |-> [f EXCEPT !.bind = 1, !.val = b, !.args = <<f.args[2]>>]]
    ELSE [fail |-> "", it |-> it, f |-> f]

\* Fault variant of gpu_kernel_with_scalars_body: the lifted operand stays
\* in the iterator.
gpu_kernel_with_scalars_body_kept(it, f, m) ==
    IF ntensors(it) # 3
    THEN [fail |-> "gpu_kernel_with_scalars: ntensors", it |-> it, f |-> f]
    ELSE IF is_cpu_scalar(it, 1)
    THEN LET a == scalar_value(m, f.args[1], it, 1)
         IN  [fail |-> "", it |-> it,
              f |-> [f EXCEPT !.bind = 1, !.val = a, !.args = <<f.args[2]>>]]
    ELSE IF is_cpu_scalar(it, 2)
    THEN LET b == scalar_value(m, f.args[2], it, 2)
         IN  [fail |-> "", it |-> it,
              f |-> [f EXCEPT !.bind = 2, !.val = b, !.args = <<f.args[1]>>]]
    ELSE [fail |-> "", it |-> it, f |-> f]

\* Fault variant of gpu_kernel_with_scalars_body: lifting operand 2 removes
\* operand 1.
gpu_kernel_with_scalars_body_first(it, f, m) ==
    IF ntensors(it) # 3
    THEN [fail |-> "gpu_kernel_with_scalars: ntensors", it |-> it, f |-> f]
    ELSE IF is_cpu_scalar(it, 1)
    THEN LET a == scalar_value(m, f.args[1], it, 1)
         IN  [fail |-> "", it |-> remove_operand(it, 1),
              f |-> [f EXCEPT !.bind = 1, !.val = a, !.args = <<f.args[2]>>]]
    ELSE IF is_cpu_scalar(it, 2)
    THEN LET b == scalar_value(m, f.args[2], it, 2)
         IN  [fail |-> "", it |-> remove_operand(it, 1),
              f |-> [f EXCEPT !.bind = 2, !.val = b, !.args = <<f.args[1]>>]]
    ELSE [fail |-> "", it |-> it, f |-> f]

\* gpu_kernel_with_scalars(iter, f) up to its call of gpu_kernel: [fail,
\* it, f], the failed assertion, the iterator as it is left and the
\* function passed on.
gpu_kernel_with_scalars_body(it, f, m) ==
    IF ntensors(it) # 3
    THEN [fail |-> "gpu_kernel_with_scalars: ntensors", it |-> it, f |-> f]
    ELSE IF is_cpu_scalar(it, 1)
    THEN LET a == scalar_value(m, f.args[1], it, 1)
         IN  [fail |-> "", it |-> remove_operand(it, 1),
              f |-> [f EXCEPT !.bind = 1, !.val = a, !.args = <<f.args[2]>>]]
    ELSE IF is_cpu_scalar(it, 2)
    THEN LET b == scalar_value(m, f.args[2], it, 2)
         IN  [fail |-> "", it |-> remove_operand(it, 2),
              f |-> [f EXCEPT !.bind = 2, !.val = b, !.args = <<f.args[1]>>]]
    ELSE [fail |-> "", it |-> it, f |-> f]

gpu_kernel_with_scalars ==
    /\ pc = "call"
    /\ entry = "gpu_kernel_with_scalars"
    /\ LET r == gpu_kernel_with_scalars_body(iter, func, mem)
       IN  IF r.fail # "" THEN Fatal(r.fail) /\ UNCHANGED <<iter, kfn>>
           ELSE /\ iter' = r.it
                /\ kfn' = r.f
                /\ stack' = <<Frame(r.it)>>
                /\ pc' = "gpu_kernel"
                /\ failure' = failure
    /\ UNCHANGED <<entry, func, iter0, launches, done, mem, wcount, calls, stream_ops>>
    /\ UNCHANGED unitvars
    /\ UNCHANGED picklevars

\* Fault variant of gpu_kernel_with_index_body: a space beyond the index
\* width is split and its first part dispatched.
gpu_kernel_with_index_body_split(it, f) ==
    IF \E arg \in 0..(ntensors(it) - 1) : ~is_cuda(it, arg)
    THEN Failed("gpu_kernel_with_index: device")
    ELSE IF numel(it) = 0
    THEN [fail |-> "", kernels |-> <<>>, ops |-> <<>>]
    ELSE IF ~can_use_32bit_indexing(it)
    THEN gpu_kernel_with_index_impl(with_32bit_indexing(it)[1], f)
    ELSE gpu_kernel_with_index_impl(it, f)

\* gpu_kernel_with_index(iter, f): [fail, kernels, ops].
gpu_kernel_with_index_body(it, f) ==
    IF \E arg \in 0..(ntensors(it) - 1) : ~is_cuda(it, arg)
    THEN Failed("gpu_kernel_with_index: device")
    ELSE IF numel(it) = 0
    THEN [fail |-> "", kernels |-> <<>>, ops |-> <<>>]
    ELSE IF ~can_use_32bit_indexing(it)
    THEN Failed("gpu_kernel_with_index: 32-bit indexing")
    ELSE gpu_kernel_with_index_impl(it, f)

gpu_kernel_with_index ==
    /\ pc = "call"
    /\ entry = "gpu_kernel_with_index"
    /\ LET r == gpu_kernel_with_index_body(iter, func)
       IN  /\ stream_ops' = stream_ops \o r.ops
           /\ IF r.fail # "" THEN Fatal(r.fail) /\ UNCHANGED launches
              ELSE /\ launches' = launches \o r.kernels
                   /\ pc' = "returned"
                   /\ UNCHANGED <<failure, stack>>
    /\ UNCHANGED <<entry, func, iter0, iter, kfn, done, mem, wcount, calls>>
    /\ UNCHANGED unitvars
    /\ UNCHANGED picklevars

\* The device executes the next kernel of the stream.
kernel_run ==
    /\ done < Len(launches)
    /\ LET st == run_kernel(launches[done + 1],
                            [mem |-> mem, wcount |-> wcount, calls |-> calls])
       IN  /\ mem' = st.mem
           /\ wcount' = st.wcount
           /\ calls' = st.calls
    /\ done' = done + 1
    /\ UNCHANGED <<entry, func, iter0, iter, kfn, pc, failure, stack, launches,
                   stream_ops>>
    /\ UNCHANGED unitvars
    /\ UNCHANGED picklevars

Next ==
    \/ gpu_kernel
    \/ gpu_kernel_loop
    \/ gpu_kernel_with_scalars
    \/ gpu_kernel_with_index
    \/ kernel_run

Spec == Init /\ [][Next]_vars

\* ------------------------------------------------------ one execution unit
\* A thread of a launched kernel, followed through the statements of
\* legacy::elementwise_kernel or modern::elementwise_kernel.  The kernels
\* here have the element counts of the code: up to the largest int32_t.

\* Groups of the grid that small element counts fill.
MaxGroups == 2

\* How far around a boundary (a multiple of nt, the last thread of a
\* block, the largest int32_t) element counts and threads are taken.
EdgeWidth == 1

Min(a, b) == IF a <= b THEN a ELSE b

\* int a + b for b >= 0.  Signed overflow is undefined: the sum wraps, or the
\* addition is not performed.
int_add(a, b) ==
    IF a <= Int32Max - b THEN {a + b}
    ELSE {(((a - Int32Max) - 1 + b) - Int32Max) - 1, a}

\* The template arguments of a launch.
ConfigOf(req) == [kernel |-> req.kernel, nt |-> req.nt, vt |-> req.vt]

\* The template arguments of a launch and whether the kernel addresses the
\* space as a collapsed one-dimensional one (no offset calculator).
ProfileOf(req) ==
    [kernel |-> req.kernel, nt |-> req.nt, vt |-> req.vt, collapsed |-> req.c.oc = NoOc]

\* The launch configurations gpu_kernel_impl and gpu_kernel_with_index_impl
\* use, over all their branches.
LaunchConfigs ==
    {ProfileOf(impl_path(c.it, c.f)) :
       c \in {c \in Calls : c.entry = "gpu_kernel" /\ numel(c.it) > 0
                            /\ ntensors(c.it) = Arity(c.f) + 1}}
      \cup {ProfileOf(index_path(c.it, c.f)) :
              c \in {c \in Calls : c.entry = "gpu_kernel_with_index" /\ numel(c.it) > 0
                                   /\ ntensors(c.it) = Arity(c.f)}}

\* Element counts N around the multiples of nt in the first groups, and
\* around the last multiples of nt below 2^31.
Sizes(nt, vt) ==
    LET low == {m * nt + d : m \in 1..(MaxGroups * vt), d \in (-EdgeWidth)..EdgeWidth}
        high == {(Int32Max - m * nt) + e : m \in 1..vt, e \in (1 - EdgeWidth)..(1 + EdgeWidth)}
        top == {Int32Max - d : d \in 0..EdgeWidth}
    IN  {1} \cup {n \in low \cup high \cup top : n >= 1}

\* One function of each arity.
UnitFuncs ==
    {CHOOSE f \in PlainFuncs(Funcs) : Arity(f) = a : a \in {Arity(g) : g \in PlainFuncs(Funcs)}}

\* The inner strides, in bytes, of the operands of a one-dimensional
\* iterator of N elements for f: each layout of the operands, and (few
\* elements) elements 2^31 bytes apart.
UnitStrides(f, N) ==
    LET n == Arity(f) + 1
        types == <<f.res>> \o f.args
    IN  {[i \in 1..n |-> wide_of(Strides(<<N>>, elementSize(types[i]), lay[i])[1])] :
           lay \in LayoutChoices(<<N>>, n)}
          \cup (IF N <= 2 * launch_size_1d THEN {[i \in 1..n |-> Wide(1, 0)]} ELSE {})

\* at::detail::Array<int, ntensors> strides of the collapsed profile:
\* strides[i] = inner_strides[i].
narrow_strides(inner_strides) ==
    [i \in 1..Len(inner_strides) |-> to_int(inner_strides[i])]

\* The kernels followed: each launch configuration with each element count;
\* a kernel of the collapsed profile that is given an element function has
\* captured the strides.
UnitKernels ==
    UNION {UNION {{[collapsed |-> c.collapsed, inner_strides |-> s,
                    strides |-> narrow_strides(s)]
                      @@ enqueue(c.kernel, c.nt, c.vt, N,
                                 Capture("", f, <<>>, <<>>, <<>>, NoOc)) :
                     s \in IF c.collapsed /\ c.kernel = "legacy"
                           THEN UnitStrides(f, N) ELSE {<<>>}} :
                  N \in Sizes(c.nt, c.vt), f \in UnitFuncs} :
           c \in LaunchConfigs}

\* The blocks followed: the first and the last of the grid.
UnitBlocks(K) ==
    (0..Min(MaxGroups, K.grid - 1)) \cup (Max(0, K.grid - 1 - EdgeWidth)..(K.grid - 1))

\* The threads followed: the first and the last of a block, and those
\* around the block's last element.
UnitThreads(K) ==
    {t \in 0..(K.nt - 1) :
       \/ t <= EdgeWidth
       \/ t >= K.nt - 1 - EdgeWidth
       \/ (t - (K.N % K.nt) <= EdgeWidth /\ (K.N % K.nt) - t <= EdgeWidth)}

\* No call is in progress on the host.
HostIdle ==
    /\ entry = "none"
    /\ func = MkFunc("const", <<>>, "u8", FALSE)
    /\ iter0 = [shape |-> <<>>, ops |-> <<>>, cast |-> FALSE]
    /\ iter = iter0
    /\ kfn = func
    /\ pc = "idle"
    /\ stack = <<>>
    /\ failure = ""
    /\ launches = <<>>
    /\ done = 0
    /\ mem = InitMem
    /\ wcount = [a \in Addrs |-> 0]
    /\ calls = <<>>
    /\ stream_ops = <<>>

KernelInit ==
    /\ HostIdle
    /\ PickleIdle
    /\ \E K \in UnitKernels :
          /\ cfg = K
          /\ blockIdx \in UnitBlocks(K)
          /\ threadIdx \in UnitThreads(K)
    /\ unit_pc = "begin"
    /\ unit_i = 0
    /\ unit_idx = 0
    /\ unit_trace = <<>>
    /\ unit_offsets = <<>>

\* int idx = nv * blockIdx.x + tid;
first_idx(nt, vt, blk, tid) == nt * vt * blk + tid

Event(op, arg, index) == [op |-> op, arg |-> arg, index |-> index]

\* The element function of a legacy kernel at idx: it reads the element idx
\* of each input, invokes f and writes the element idx of the output.
element_events(f, idx) ==
    [j \in 1..Arity(f) |-> Event("read", j, idx)]
      \o <<Event("invoke", 0, idx), Event("write", 0, idx)>>

\* The byte offsets the element function of the collapsed profile computes
\* at idx: strides[0] * idx for the output and, in invoke, i * strides[j]
\* for input j, with i = idx.
lambda_offsets(strides, idx) ==
    LET n == Len(strides)
        all == UNION {int_mul(strides[j], idx) : j \in 1..n}
    IN  {o \in [1..n -> all] : \A j \in 1..n : o[j] \in int_mul(strides[j], idx)}

\* legacy::elementwise_kernel: tid, nv and idx.
legacy_begin ==
    /\ unit_pc = "begin"
    /\ cfg.kernel = "legacy"
    /\ unit_idx' = first_idx(cfg.nt, cfg.vt, blockIdx, threadIdx)
    /\ unit_i' = 0
    /\ unit_pc' = "loop"
    /\ UNCHANGED <<cfg, blockIdx, threadIdx, unit_trace, unit_offsets>>
    /\ UNCHANGED hostvars
    /\ UNCHANGED picklevars

\* Fault variant of legacy_guard: the bound is inclusive.
legacy_guard_inclusive(idx, N) == idx <= N

\* The guard of the loop body of legacy::elementwise_kernel.
legacy_guard(idx, N) == idx < N

\* Fault variant of legacy_stride: idx steps to the next element.
legacy_stride_one(nt, vt) == 1

\* Fault variant of legacy_stride: idx steps over a whole batch.
legacy_stride_batch(nt, vt) == nt * vt

\* The step of idx in the loop body of legacy::elementwise_kernel.
legacy_stride(nt, vt) == nt

\* legacy::elementwise_kernel: one iteration of the loop.
legacy_iteration ==
    /\ unit_pc = "loop"
    /\ cfg.kernel = "legacy"
    /\ unit_i < cfg.vt
    /\ IF legacy_guard(unit_idx, cfg.N)
       THEN /\ unit_trace' = unit_trace \o element_events(cfg.f, unit_idx)
            /\ IF cfg.collapsed
               THEN \E o \in lambda_offsets(cfg.strides, unit_idx) :
                       unit_offsets' = Append(unit_offsets, [idx |-> unit_idx, offsets |-> o])
               ELSE UNCHANGED unit_offsets
            /\ unit_idx' \in int_add(unit_idx, legacy_stride(cfg.nt, cfg.vt))
       ELSE UNCHANGED <<unit_trace, unit_idx, unit_offsets>>
    /\ unit_i' = unit_i + 1
    /\ unit_pc' = IF unit_i + 1 < cfg.vt THEN "loop" ELSE "done"
    /\ UNCHANGED <<cfg, blockIdx, threadIdx>>
    /\ UNCHANGED hostvars
    /\ UNCHANGED picklevars

\* modern::elementwise_kernel: tid, nv, idx and the base pointers.
modern_begin ==
    /\ unit_pc = "begin"
    /\ cfg.kernel = "modern"
    /\ unit_idx' = first_idx(cfg.nt, cfg.vt, blockIdx, threadIdx)
    /\ unit_i' = 0
    /\ unit_pc' = "fetch"
    /\ UNCHANGED <<cfg, blockIdx, threadIdx, unit_trace, unit_offsets>>
    /\ UNCHANGED hostvars
    /\ UNCHANGED picklevars

\* The pass after a pass of modern::elementwise_kernel.
next_pass(pass) ==
    CASE pass = "fetch" -> "compute"
      [] pass = "compute" -> "store"
      [] pass = "store" -> "done"

\* Fault variant of pass_events: one loop reads, computes and stores.
pass_events_fused(pass, f, index) ==
    IF pass = "fetch"
    THEN [j \in 1..Arity(f) |-> Event("read", j, index)]
           \o <<Event("invoke", 0, index), Event("write", 0, index)>>
    ELSE <<>>

\* What iteration i of a pass does for the element at base + i * nt.
pass_events(pass, f, index) ==
    CASE pass = "fetch" -> [j \in 1..Arity(f) |-> Event("read", j, index)]
      [] pass = "compute" -> <<Event("invoke", 0, index)>>
      [] pass = "store" -> <<Event("write", 0, index)>>

\* Fault variant of modern_slot: the slot of the next iteration.
modern_slot_next(idx, nt, i) == int_add(idx, nt * (i + 1))

\* The slot of iteration i of a pass: idx + nt * i.
modern_slot(idx, nt, i) == int_add(idx, nt * i)

\* modern::elementwise_kernel: one iteration of the fetch, compute or store
\* loop.  The guard is on the int idx + nt * i; the element accessed is at
\* the base pointer (base + idx) plus i * nt.
modern_iteration ==
    /\ unit_pc \in {"fetch", "compute", "store"}
    /\ cfg.kernel = "modern"
    /\ \E slot \in modern_slot(unit_idx, cfg.nt, unit_i) :
          IF slot < cfg.N
          THEN unit_trace' = unit_trace \o pass_events(unit_pc, cfg.f, unit_idx + unit_i * cfg.nt)
          ELSE UNCHANGED unit_trace
    /\ IF unit_i + 1 < cfg.vt
       THEN unit_i' = unit_i + 1 /\ UNCHANGED unit_pc
       ELSE unit_i' = 0 /\ unit_pc' = next_pass(unit_pc)
    /\ UNCHANGED <<cfg, blockIdx, threadIdx, unit_idx, unit_offsets>>
    /\ UNCHANGED hostvars
    /\ UNCHANGED picklevars

RECURSIVE legacy_owned(_, _, _, _, _)
\* The indices legacy::elementwise_kernel<nt, vt> calls f with from
\* iteration i on, idx being the local variable, in order.
legacy_owned(nt, vt, N, i, idx) ==
    IF i >= vt THEN <<>>
    ELSE IF legacy_guard(idx, N)
    THEN <<idx>> \o legacy_owned(nt, vt, N, i + 1, idx + legacy_stride(nt, vt))
    ELSE legacy_owned(nt, vt, N, i + 1, idx)

RECURSIVE modern_owned(_, _, _, _, _)
\* The indices modern::elementwise_kernel<nt, vt> stores to from iteration
\* i on, idx being the local variable, in order.
modern_owned(nt, vt, N, i, idx) ==
    IF i >= vt THEN <<>>
    ELSE IF idx + nt * i < N
    THEN <<idx + i * nt>> \o modern_owned(nt, vt, N, i + 1, idx)
    ELSE modern_owned(nt, vt, N, i + 1, idx)

\* The element indices thread tid of block blk of kernel K processes.
owned(K, blk, tid) ==
    IF K.kernel = "modern"
    THEN modern_owned(K.nt, K.vt, K.N, 0, first_idx(K.nt, K.vt, blk, tid))
    ELSE legacy_owned(K.nt, K.vt, K.N, 0, first_idx(K.nt, K.vt, blk, tid))

KernelNext ==
    \/ legacy_begin
    \/ legacy_iteration
    \/ modern_begin
    \/ modern_iteration

KernelSpec == KernelInit /\ [][KernelNext]_vars

\* ------------------------------------------------------------------ pickle
\* pickle(ivalue, tensor_table) and the pickle_stream it calls.  The Pickler
\* is known by its interface: each of its methods may pass chunks of bytes
\* to the writer it was constructed with.

\* Values of a char of a chunk.
ChunkBytes == {0, 1}

\* The chunks (bytes, len) a method may pass to the writer.
Chunks == UNION {[1..n -> ChunkBytes] : n \in 0..MaxChunkLen}

\* What one call of a method of the Pickler passes to the writer: nothing,
\* or one chunk.
Writes == {<<>>} \cup {<<c>> : c \in Chunks}

\* Fault variant of writer: the chunk is inserted at the front of data.
writer_front(d, bytes) == bytes \o d

\* The writer pickle gives pickle_stream:
\* data.insert(data.end(), bytes, bytes + len).
writer(d, bytes) == d \o bytes

RECURSIVE write_all(_, _)
\* The writer called with each chunk of w in turn.
write_all(d, w) ==
    IF w = <<>> THEN d ELSE write_all(writer(d, Head(w)), Tail(w))

\* Fault variant of pickle_next: the torch.save framing is written whether
\* or not a tensor table is given.
pickle_next_framed(at, table) ==
    CASE at = "pickle" -> "torchSaveStart"
      [] at = "torchSaveStart" -> "protocol"
      [] at = "protocol" -> "pushIValue"
      [] at = "pushIValue" -> "stop"
      [] at = "stop" -> "torchSaveStop"
      [] at = "torchSaveStop" -> "return"

\* The statement of pickle_stream that follows statement at.
pickle_next(at, table) ==
    CASE at = "pickle" -> IF table = "null" THEN "torchSaveStart" ELSE "protocol"
      [] at = "torchSaveStart" -> "protocol"
      [] at = "protocol" -> "pushIValue"
      [] at = "pushIValue" -> "stop"
      [] at = "stop" -> IF table = "null" THEN "torchSaveStop" ELSE "return"
      [] at = "torchSaveStop" -> "return"

PickleInit ==
    /\ HostIdle
    /\ UnitIdle
    /\ tensor_table \in {"null", "table"}
    /\ pickle_pc = "pickle"
    /\ pickler_calls = <<>>
    /\ writer_calls = <<>>
    /\ data = <<>>
    /\ pickled = <<>>

\* pickle calls pickle_stream, which constructs the Pickler on the writer
\* and the tensor table.
pickle_stream ==
    /\ pickle_pc = "pickle"
    /\ pickle_pc' = pickle_next("pickle", tensor_table)
    /\ UNCHANGED <<tensor_table, pickler_calls, writer_calls, data, pickled>>
    /\ UNCHANGED hostvars
    /\ UNCHANGED unitvars

\* One call pickler.method(): the method passes its chunks to the writer.
pickler_call(method) ==
    /\ pickle_pc = method
    /\ pickler_calls' = Append(pickler_calls, method)
    /\ \E w \in Writes :
          /\ writer_calls' = writer_calls \o w
          /\ data' = write_all(data, w)
    /\ pickle_pc' = pickle_next(method, tensor_table)
    /\ UNCHANGED <<tensor_table, pickled>>
    /\ UNCHANGED hostvars
    /\ UNCHANGED unitvars

torchSaveStart == pickler_call("torchSaveStart")

protocol == pickler_call("protocol")

pushIValue == pickler_call("pushIValue")

stop == pickler_call("stop")

torchSaveStop == pickler_call("torchSaveStop")

\* pickle_stream returns; pickle returns data.
pickle_return ==
    /\ pickle_pc = "return"
    /\ pickled' = data
    /\ pickle_pc' = "returned"
    /\ UNCHANGED <<tensor_table, pickler_calls, writer_calls, data>>
    /\ UNCHANGED hostvars
    /\ UNCHANGED unitvars

PickleNext ==
    \/ pickle_stream
    \/ torchSaveStart
    \/ protocol
    \/ pushIValue
    \/ stop
    \/ torchSaveStop
    \/ pickle_return

PickleSpec == PickleInit /\ [][PickleNext]_vars

\* --------------------------------------------------- pointwise reference

\* The address of the element of operand i (1 is the output) at linear
\* position k of the iteration space.
ElementAddr(it, i, k) == it.ops[i].data + Dot(Coords(it.shape, k), it.ops[i].strides)

\* The inputs of position k as f receives them: each operand's element,
\* converted to the type of f's argument.
InputsAt(it, f, m, k) ==
    [j \in 1..Len(f.args) |->
       static_cast(f.args[j], Load(m, it.ops[j + 1].dtype, ElementAddr(it, j + 1, k)))]

\* The bytes of operand i's element at position k.
ElementSpan(it, i, k) ==
    ElementAddr(it, i, k) .. (ElementAddr(it, i, k) + elementSize(it.ops[i].dtype) - 1)

\* Memory m with the output element of every position k holding the value
\* val[k], converted to the output's element type.
WithOutputs(it, m, val) ==
    [a \in DOMAIN m |->
       LET ks == {k \in 0..(numel(it) - 1) : a \in ElementSpan(it, 1, k)}
       IN  IF ks = {} THEN m[a]
           ELSE LET k == CHOOSE k \in ks : TRUE
                IN  ByteOf(static_cast(it.ops[1].dtype, val[k]), a - ElementAddr(it, 1, k))]

\* Memory after the pointwise application of f over the iteration space.
Pointwise(it, f, m) ==
    WithOutputs(it, m, [k \in 0..(numel(it) - 1) |-> Apply(f, InputsAt(it, f, m, k))])

\* The call is over and the device has executed every kernel enqueued.
Finished == pc \in {"returned", "fatal"} /\ done = Len(launches)

OnDevice(it) == \A arg \in 0..(ntensors(it) - 1) : is_cuda(it, arg)

\* ------------------------------------------------------------------ claims

\* C1: after gpu_kernel(iter, f) on an iterator with arity(f)+1 operands,
\* all on the device, the output element of every position k holds f of the
\* input elements of position k (converted to f's argument types and to the
\* output's type), whatever the shape, the strides and the path.
C1_Pointwise ==
    (entry = "gpu_kernel" /\ pc = "returned" /\ Finished
       /\ OnDevice(iter0) /\ ntensors(iter0) = Arity(func) + 1)
      => mem = Pointwise(iter0, func, InitMem)

\* The arguments of f have one element size.
UniformArgs(f) == \A j \in 1..Len(f.args) : elementSize(f.args[j]) = elementSize(f.args[1])

\* C1 for the functions whose arguments have one element size.
C1_PointwiseUniform ==
    UniformArgs(func) => C1_Pointwise

\* gpu_kernel_impl takes the contiguous path for it.
TakesContiguousPath(it, f) ==
    /\ OnDevice(it) /\ numel(it) > 0 /\ can_use_32bit_indexing(it)
    /\ ntensors(it) = Arity(f) + 1
    /\ is_trivial_1d(it) /\ ~needs_dynamic_casting(it) /\ has_contiguous_first_dim(it)

\* The kernel a launch enqueues.
KernelOf(req) == launch_kernel(req).kernels[1]

ExecState == [mem |-> mem, wcount |-> wcount, calls |-> calls]

\* C2: on a one-dimensional, fully packed, non-casting iterator the
\* contiguous kernel writes the bytes that the strided kernel's collapsed
\* non-casting profile writes for the same operands.
C2_PathEquivalence ==
    (pc = "gpu_kernel" /\ stack # <<>> /\ Top.at = "entry"
       /\ TakesContiguousPath(Top.it, kfn))
      => run_kernel(KernelOf(impl_1d_contiguous(Top.it, kfn)), ExecState).mem
           = run_kernel(KernelOf(impl_1d_strided(Top.it, kfn)), ExecState).mem

\* C2 for the functions whose arguments have one element size.
C2_PathEquivalenceUniform ==
    UniformArgs(kfn) => C2_PathEquivalence

\* The input operand gpu_kernel_with_scalars lifts: 1 if operand 1 is a
\* host scalar, otherwise 2 if operand 2 is one, otherwise none (-1).
LiftedOperand(it) ==
    IF is_cpu_scalar(it, 1) THEN 1 ELSE IF is_cpu_scalar(it, 2) THEN 2 ELSE -1

\* Every operand but the lifted one is on the device.
RemainingOnDevice(it) ==
    \A arg \in 0..(ntensors(it) - 1) : arg = LiftedOperand(it) \/ is_cuda(it, arg)

NoWrites == mem = InitMem /\ wcount = [a \in Addrs |-> 0]

\* C3: with exactly one input a host scalar of value s, gpu_kernel_with_scalars
\* leaves in every output element k the value f(s, x[k]) if operand 1 is
\* the scalar and f(x[k], s) if operand 2 is: what the binary dispatch
\* gives for the scalar read as a broadcast operand.
C3_ScalarLifting ==
    (entry = "gpu_kernel_with_scalars" /\ ntensors(iter0) = 3
       /\ is_cpu_scalar(iter0, 1) # is_cpu_scalar(iter0, 2)
       /\ pc = "returned" /\ Finished)
      => /\ mem = Pointwise(iter0, func, InitMem)
         /\ \A k \in 0..(numel(iter0) - 1) :
               LET s == scalar_value(InitMem, func.args[LiftedOperand(iter0)],
                                     iter0, LiftedOperand(iter0))
                   other == 3 - LiftedOperand(iter0)
                   x == static_cast(func.args[other],
                                    Load(InitMem, scalar_type(iter0, other),
                                         ElementAddr(iter0, other + 1, k)))
               IN  Load(mem, scalar_type(iter0, 0), ElementAddr(iter0, 1, k))
                     = static_cast(scalar_type(iter0, 0),
                          Apply(func, IF LiftedOperand(iter0) = 1 THEN <<s, x>>
                                      ELSE <<x, s>>))

\* A call that lifted operand 2 over a split two-dimensional space.
C3_Witness ==
    /\ entry = "gpu_kernel_with_scalars" /\ ntensors(iter0) = 3
    /\ ~is_cpu_scalar(iter0, 1) /\ is_cpu_scalar(iter0, 2)
    /\ pc = "returned" /\ Finished
    /\ kfn.bind = 2 /\ ntensors(iter) = 2
    /\ numel(iter0) > IndexMax /\ Len(calls) = numel(iter0)

\* The kernel of a single dispatch of the whole space, were the index wide
\* enough for it.
UnsplitKernel(it, f) ==
    LET r == impl_path(it, f)
    IN  enqueue(r.kernel, r.nt, r.vt, r.N, r.c)

\* C4: when the iterator does not fit the index width, the sub-dispatches
\* together leave memory as one dispatch of the whole space would, every
\* output element written exactly once and nothing else written.
C4_SplitEquivalence ==
    (entry \in {"gpu_kernel", "gpu_kernel_with_scalars"} /\ pc = "returned" /\ Finished
       /\ ntensors(iter) = Arity(kfn) + 1 /\ ~can_use_32bit_indexing(iter))
      => LET u == run_kernel(UnsplitKernel(iter, kfn),
                             [mem |-> InitMem, wcount |-> [a \in Addrs |-> 0],
                              calls |-> <<>>])
             outs == UNION {ElementSpan(iter, 1, k) : k \in 0..(numel(iter) - 1)}
         IN  /\ mem = u.mem
             /\ \A a \in Addrs : wcount[a] = IF a \in outs THEN 1 ELSE 0
             /\ Len(calls) = numel(iter)
             /\ Len(launches) = Len(with_32bit_indexing(iter))

\* The split dispatch agrees with the single dispatch for every function
\* whose arguments all have one type.
C4_SplitEquivalenceUniform == UniformArgs(kfn) => C4_SplitEquivalence

\* A two-dimensional space dispatched in three parts or more.
C4_Witness ==
    /\ entry = "gpu_kernel" /\ pc = "returned" /\ Finished
    /\ ~can_use_32bit_indexing(iter0) /\ ndim(iter0) = 2
    /\ Len(launches) >= 3 /\ Len(calls) = numel(iter0)

\* The residency precondition of the entry point called.
ResidencyOk ==
    IF entry = "gpu_kernel_with_scalars"
    THEN ntensors(iter0) = 3 /\ RemainingOnDevice(iter0)
    ELSE OnDevice(iter0)

\* C5: a call of any entry point on an iterator of zero elements whose
\* operands satisfy the residency precondition enqueues no kernel, writes no
\* memory and returns without a failure.
C5_EmptyShortCircuit ==
    (numel(iter0) = 0 /\ ResidencyOk)
      => launches = <<>> /\ NoWrites /\ pc # "fatal" /\ failure = ""

\* gpu_kernel_with_index has returned from an empty space.
C5_Witness ==
    /\ numel(iter0) = 0 /\ ResidencyOk /\ pc = "returned"
    /\ entry = "gpu_kernel_with_index" /\ ndim(iter0) = 2

\* C6: gpu_kernel and gpu_kernel_with_index on an iterator with an operand
\* off the device fail on the residency assertion, whatever the element
\* count: nothing is enqueued or written, no sub-iterator is dispatched,
\* and once failed the call takes no further step.
C6_ResidencyFirst ==
    (entry \in {"gpu_kernel", "gpu_kernel_with_index"} /\ ~OnDevice(iter0))
      => /\ launches = <<>> /\ NoWrites
         /\ pc \in {"call", "gpu_kernel", "fatal"}
         /\ \A i \in 1..Len(stack) : stack[i].at = "entry"
         /\ pc = "fatal" => /\ failure \in {"gpu_kernel: device",
                                            "gpu_kernel_with_index: device"}
                            /\ ~ENABLED Next
         /\ ~ENABLED Next => pc = "fatal"

\* gpu_kernel has failed on an off-device operand of a space beyond the
\* index width.
C6_Witness ==
    /\ entry = "gpu_kernel" /\ ~OnDevice(iter0) /\ ~can_use_32bit_indexing(iter0)
    /\ pc = "fatal" /\ failure = "gpu_kernel: device"

\* The operand count does not match the function's arity.
Miscount ==
    \/ entry = "gpu_kernel" /\ ntensors(iter0) # Arity(func) + 1
    \/ entry = "gpu_kernel_with_index" /\ ntensors(iter0) # Arity(func)

\* C7 as stated: a call with a mismatched operand count fails, and enqueues
\* nothing, for every element count of the iterator.
C7_ArityFatalAlways ==
    Miscount => /\ launches = <<>>
                /\ pc \in {"call", "gpu_kernel", "fatal"}

\* C7 as amended: a call with a mismatched operand count on an iterator of
\* one element or more fails before any kernel is enqueued; on an iterator
\* of no element with its operands on the device it returns without a
\* failure, the operand count unchecked.
C7_ArityFatalNonEmpty ==
    /\ (Miscount /\ numel(iter0) # 0)
         => /\ launches = <<>> /\ NoWrites
            /\ pc \in {"call", "gpu_kernel", "fatal"}
            /\ ~ENABLED Next => pc = "fatal"
    /\ (Miscount /\ numel(iter0) = 0 /\ OnDevice(iter0))
         => /\ launches = <<>> /\ NoWrites
            /\ pc # "fatal"
            /\ ~ENABLED Next => pc = "returned"

\* gpu_kernel has failed on the operand count in the dispatch of the first
\* sub-iterator of a space beyond the index width.
C7_Witness ==
    /\ Miscount /\ entry = "gpu_kernel" /\ OnDevice(iter0)
    /\ ~can_use_32bit_indexing(iter0)
    /\ pc = "fatal" /\ failure = "gpu_kernel_impl: ntensors"

\* C8: gpu_kernel_with_index on a non-empty iterator on the device that
\* does not fit the index width fails on the index-width assertion: no
\* sub-iterator is obtained or dispatched, nothing is enqueued or written.
C8_IndexNeverSplits ==
    (entry = "gpu_kernel_with_index" /\ numel(iter0) # 0 /\ OnDevice(iter0)
       /\ ~can_use_32bit_indexing(iter0))
      => /\ launches = <<>> /\ NoWrites /\ stack = <<>>
         /\ pc \in {"call", "fatal"}
         /\ pc = "fatal" => failure = "gpu_kernel_with_index: 32-bit indexing"

\* gpu_kernel_with_index has failed on a space beyond the index width
\* with a matching operand count.
C8_Witness ==
    /\ entry = "gpu_kernel_with_index" /\ numel(iter0) # 0 /\ OnDevice(iter0)
    /\ ~can_use_32bit_indexing(iter0) /\ ntensors(iter0) = Arity(func)
    /\ pc = "fatal"

\* C9: gpu_kernel_with_index with arity(f) operands invokes f exactly once
\* for every linear index k, with the elements of operands 1..arity-1 at
\* position k and k itself as the last argument, and stores the result in
\* the output element of position k.
C9_IndexedInvocation ==
    (entry = "gpu_kernel_with_index" /\ pc = "returned" /\ Finished
       /\ ntensors(iter0) = Arity(func))
      => /\ Len(calls) = numel(iter0)
         /\ \A k \in 0..(numel(iter0) - 1) :
               \E c \in 1..Len(calls) :
                  /\ calls[c].args = InputsAt(iter0, func, InitMem, k) \o <<k>>
                  /\ calls[c].out = ElementAddr(iter0, 1, k)
                  /\ \A d \in 1..Len(calls) :
                        calls[d].args[Arity(func)] = k => d = c
         /\ mem = WithOutputs(iter0, InitMem,
                     [k \in 0..(numel(iter0) - 1) |->
                        Apply(func, InputsAt(iter0, func, InitMem, k) \o <<k>>)])

\* A casting call over a two-dimensional space with two memory-bound
\* arguments.
C9_Witness ==
    /\ entry = "gpu_kernel_with_index" /\ pc = "returned" /\ Finished
    /\ ntensors(iter0) = Arity(func) /\ Arity(func) = 3
    /\ ndim(iter0) = 2 /\ numel(iter0) = 4 /\ iter0.cast
    /\ Len(calls) = 4

\* C10: gpu_kernel_with_scalars completes without a failure exactly when
\* the iterator has 3 operands and, the host scalar input lifted (operand 1
\* before operand 2), every remaining operand is on the device; otherwise
\* it fails and no kernel is enqueued.
C10_ScalarsResidency ==
    entry = "gpu_kernel_with_scalars"
      => LET ok == ntensors(iter0) = 3 /\ RemainingOnDevice(iter0)
         IN  /\ pc = "returned" => ok
             /\ pc = "fatal" => ~ok
             /\ ~ok => launches = <<>> /\ NoWrites
             /\ pc \notin {"returned", "fatal"} => ENABLED Next

\* Both inputs are host scalars: operand 1 was lifted and operand 2 failed
\* the residency assertion.
C10_Witness ==
    /\ entry = "gpu_kernel_with_scalars" /\ ntensors(iter0) = 3
    /\ is_cpu_scalar(iter0, 1) /\ is_cpu_scalar(iter0, 2)
    /\ kfn.bind = 1
    /\ pc = "fatal" /\ failure = "gpu_kernel: device"

\* ------------------------------------------------- claims on the kernels

\* The (group, unit) pairs of a launch.
Units(K) == (0..(K.grid - 1)) \X (0..(K.nt - 1))

\* The element slots of a launch: a unit and the position of an element
\* among those the unit processes.
Slots(K) ==
    UNION {{<<u, p>> : p \in 1..Len(owned(K, u[1], u[2]))} : u \in Units(K)}

\* The element count is one of the small ones: the whole grid is enumerable.
SmallLaunch(K) == K.N <= MaxGroups * K.nt * K.vt + EdgeWidth

\* The indices a trace invokes f for, in order.
Invoked(trace) ==
    LET inv == SelectSeq(trace, LAMBDA e : e.op = "invoke")
    IN  [p \in 1..Len(inv) |-> inv[p].index]

\* C11: in each launch configuration used, with ceil(N / (nt * vt)) groups,
\* the launch has N element slots in all and they cover exactly 0..N-1: the
\* index sets of distinct (group, unit) pairs are disjoint and every index
\* has one owner.  A unit that has run to its end has processed exactly the
\* indices it owns, once each.
C11_DisjointCoverage ==
    /\ cfg.N - (cfg.grid - 1) * (cfg.nt * cfg.vt) \in 1..(cfg.nt * cfg.vt)
    /\ (SmallLaunch(cfg) /\ unit_pc = "begin" /\ blockIdx = 0 /\ threadIdx = 0)
         => /\ Cardinality(Slots(cfg)) = cfg.N
            /\ {owned(cfg, s[1][1], s[1][2])[s[2]] : s \in Slots(cfg)} = 0..(cfg.N - 1)
    /\ (SmallLaunch(cfg) /\ unit_pc = "done")
         => Invoked(unit_trace) = owned(cfg, blockIdx, threadIdx)

\* A thread of the second group of a modern kernel whose last group is
\* partly filled has processed elements.
C11_Witness ==
    /\ cfg.kernel = "modern" /\ SmallLaunch(cfg) /\ cfg.grid >= 2
    /\ cfg.N % (cfg.nt * cfg.vt) # 0
    /\ blockIdx = 1 /\ unit_pc = "done" /\ Len(Invoked(unit_trace)) >= 2

\* C12: in both kernels, whatever N, the group and the unit, nothing is
\* done for an element slot whose index is N or more: every read, every
\* invocation of f and every write of a unit is at an element index in
\* 0..N-1.
C12_BoundaryMasking ==
    \A p \in 1..Len(unit_trace) :
       unit_trace[p].index >= 0 /\ unit_trace[p].index < cfg.N

\* A thread of a modern kernel has run to its end with some of its slots
\* below N and the others masked.
C12_Witness ==
    /\ cfg.kernel = "modern" /\ unit_pc = "done" /\ Arity(cfg.f) = 2
    /\ Len(Invoked(unit_trace)) \in 1..(cfg.vt - 1)
    /\ cfg.N > Int32Max - cfg.nt

\* ------------------------------------------------ claims on the dispatch

\* gpu_kernel was called with a non-empty iterator on the device that fits
\* the index width and has arity + 1 operands, and has returned.
SingleDispatch ==
    /\ entry \in {"gpu_kernel", "gpu_kernel_with_scalars"}
    /\ pc = "returned"
    /\ numel(iter) > 0 /\ can_use_32bit_indexing(iter)
    /\ ntensors(iter) = Arity(kfn) + 1

\* C13: for a non-empty iterator that fits the index width gpu_kernel_impl
\* launches exactly one kernel: the contiguous kernel if and only if the
\* space is one-dimensional, needs no casting and has a contiguous first
\* dimension; the strided kernel in its collapsed profile if and only if
\* the space is one-dimensional otherwise; the strided kernel with the
\* offset calculator if and only if the space is not one-dimensional; and
\* the casting adapter if and only if casting is required.
C13_PathSelection ==
    SingleDispatch
      => /\ Len(launches) = 1
         /\ LET K == launches[1]
                one_d == is_trivial_1d(iter)
                casting == needs_dynamic_casting(iter)
                vectorized == one_d /\ ~casting /\ has_contiguous_first_dim(iter)
            IN  /\ K.kernel = "modern" <=> vectorized
                /\ K.kernel = "modern" => ConfigOf(K) = ConfigOf(impl_1d_contiguous(iter, kfn))
                /\ (K.kernel = "legacy" /\ K.lambda \in {"impl_1d", "impl_1d_cast"})
                     <=> (one_d /\ ~vectorized)
                /\ K.lambda \in {"impl_1d", "impl_1d_cast"}
                     => K.oc = NoOc /\ K.strides = impl_strides(iter, Arity(kfn) + 1)
                /\ (K.kernel = "legacy" /\ K.lambda \in {"impl_nd", "impl_nd_cast"})
                     <=> ~one_d
                /\ K.lambda \in {"impl_nd", "impl_nd_cast"}
                     => K.oc = make_offset_calculator(iter)
                /\ K.lambda \in {"impl_1d_cast", "impl_nd_cast"} <=> casting
                /\ K.N = numel(iter)

\* A one-dimensional non-casting space with a strided operand went to the
\* strided kernel.
C13_Witness ==
    /\ SingleDispatch /\ entry = "gpu_kernel"
    /\ is_trivial_1d(iter) /\ ~needs_dynamic_casting(iter)
    /\ ~has_contiguous_first_dim(iter)
    /\ Len(launches) = 1 /\ launches[1].lambda = "impl_1d"

\* C14: in every execution of gpu_kernel and gpu_kernel_with_scalars,
\* whatever the element count of the iterator, every kernel enqueued has an
\* element count N with 1 <= N <= the largest index and one group or more,
\* the range assertions of gpu_kernel_impl and launch_kernel do not fail,
\* and gpu_kernel recurses on the sub-iterators one level deep only.
C14_IndexWidth ==
    entry \in {"gpu_kernel", "gpu_kernel_with_scalars"}
      => /\ \A p \in 1..Len(launches) :
               /\ launches[p].N >= 1 /\ launches[p].N <= IndexMax
               /\ launches[p].grid >= 1
         /\ failure \notin {"gpu_kernel_impl: 32-bit indexing", "launch_kernel: N"}
         /\ Len(stack) <= 2
         /\ Len(stack) = 2 => /\ stack[1].at = "loop" /\ stack[2].at = "entry"
                              /\ can_use_32bit_indexing(stack[2].it)
                              /\ numel(stack[2].it) >= 1

\* gpu_kernel_with_scalars is in the dispatch of a sub-iterator of a space
\* beyond the index width, a kernel already enqueued.
C14_Witness ==
    /\ entry = "gpu_kernel_with_scalars" /\ ~can_use_32bit_indexing(iter)
    /\ Len(stack) = 2 /\ Len(launches) >= 1 /\ pc = "gpu_kernel"

\* C15: every enqueue of a kernel on the stream is followed at once by one
\* error check, before the launch returns and before the next kernel (of
\* the next sub-iterator, when the space is split) is enqueued; and the host
\* goes on and returns whether or not the device has executed the kernels.
C15_EnqueueThenCheck ==
    /\ Len(stream_ops) = 2 * Len(launches)
    /\ \A p \in 1..Len(launches) :
          /\ stream_ops[2 * p - 1] = "enqueue"
          /\ stream_ops[2 * p] = "cudaGetLastError"
    /\ pc = "call" => ENABLED gpu_kernel_with_scalars \/ ENABLED gpu_kernel_with_index
    /\ pc = "gpu_kernel" => ENABLED gpu_kernel \/ ENABLED gpu_kernel_loop

\* The dispatch of a split space has returned with three kernels enqueued
\* and checked and none of them executed.
C15_Witness ==
    /\ pc = "returned" /\ done = 0 /\ Len(launches) >= 3
    /\ stream_ops[Len(stream_ops)] = "cudaGetLastError"
    /\ calls = <<>>

\* The pass an operation belongs to.
PassOf(op) == CASE op = "read" -> 1 [] op = "invoke" -> 2 [] op = "write" -> 3

\* The indices a trace does op at, for input j (0 for the output).
IndicesOf(trace, op, j) ==
    {trace[p].index : p \in {p \in 1..Len(trace) : trace[p].op = op /\ trace[p].arg = j}}

\* C16: within a unit of the contiguous kernel every read of an input
\* element comes before every invocation of f and every invocation before
\* every write of an output element, and the unit writes exactly the
\* element indices it read and invoked f for: no read of the unit follows
\* one of its writes, so an output that aliases an input is read before it
\* is overwritten.
C16_ThreePasses ==
    cfg.kernel = "modern"
      => /\ \A p, q \in 1..Len(unit_trace) :
               p < q => PassOf(unit_trace[p].op) <= PassOf(unit_trace[q].op)
         /\ IndicesOf(unit_trace, "write", 0) \subseteq IndicesOf(unit_trace, "invoke", 0)
         /\ \A j \in 1..Arity(cfg.f) :
               IndicesOf(unit_trace, "invoke", 0) \subseteq IndicesOf(unit_trace, "read", j)
         /\ unit_pc = "done"
              => /\ IndicesOf(unit_trace, "write", 0) = IndicesOf(unit_trace, "invoke", 0)
                 /\ \A j \in 1..Arity(cfg.f) :
                       IndicesOf(unit_trace, "read", j) = IndicesOf(unit_trace, "write", 0)
                 /\ Len(unit_trace) = (Arity(cfg.f) + 2) * Len(Invoked(unit_trace))

\* A unit of the contiguous kernel has read, computed and stored a full
\* batch of a binary function.
C16_Witness ==
    /\ cfg.kernel = "modern" /\ unit_pc = "done" /\ Arity(cfg.f) = 2
    /\ Len(Invoked(unit_trace)) = cfg.vt /\ cfg.vt > 1
    /\ Len(unit_trace) = 4 * cfg.vt

\* A unit of the strided kernel processes at most 1 element in the
\* collapsed profile and 4 in the multi-dimensional one, and consecutive
\* elements of the unit are `step` apart.
OwnershipPattern(step) ==
    cfg.kernel = "legacy"
      => /\ cfg.vt = IF cfg.collapsed THEN 1 ELSE 4
         /\ Len(Invoked(unit_trace)) <= cfg.vt
         /\ \A p \in 1..(Len(Invoked(unit_trace)) - 1) :
               Invoked(unit_trace)[p + 1] - Invoked(unit_trace)[p] = step

\* C17 as stated: consecutive elements of a unit are separated by the
\* number of execution units of the whole launch.
C17_StepIsLaunchUnits == OwnershipPattern(cfg.grid * cfg.nt)

\* C17 as amended: consecutive elements of a unit are separated by the
\* number of execution units of one group, nt.
C17_StepIsGroupUnits == OwnershipPattern(cfg.nt)

\* A unit of the second group of a multi-dimensional launch has processed
\* its four elements.
C17_Witness ==
    /\ cfg.kernel = "legacy" /\ cfg.vt = 4 /\ cfg.grid >= 2 /\ blockIdx = 1
    /\ unit_pc = "done" /\ Len(Invoked(unit_trace)) = 4

\* The first index of the unit followed, as a mathematical value.
FirstIndex == cfg.nt * cfg.vt * blockIdx + threadIdx

\* C18: for N up to 2^31-1, every group and every unit of the grid, the
\* index values that are compared with N, passed to the element function
\* or used to address memory are computed without passing 2^31-1: the
\* first idx, idx after i steps of nt in the strided kernel, and
\* idx + nt * i in the contiguous kernel equal nt * vt * group + unit + i * nt.
C18_NoIndexWraparound ==
    /\ unit_pc = "begin"
         => blockIdx <= (Int32Max - threadIdx) \div (cfg.nt * cfg.vt)
    /\ unit_pc = "loop"
         => /\ unit_idx >= FirstIndex
            /\ unit_idx - FirstIndex = Len(Invoked(unit_trace)) * cfg.nt
            /\ unit_idx <= Int32Max
    /\ unit_pc \in {"fetch", "compute", "store"}
         => /\ unit_idx = FirstIndex
            /\ unit_idx <= Int32Max - cfg.nt * unit_i
            /\ modern_slot(unit_idx, cfg.nt, unit_i) = {FirstIndex + unit_i * cfg.nt}
    /\ \A p \in 1..Len(Invoked(unit_trace)) :
          /\ Invoked(unit_trace)[p] >= FirstIndex
          /\ Invoked(unit_trace)[p] - FirstIndex = (p - 1) * cfg.nt

\* A unit of the last group of a launch of 2^31-1 elements has processed
\* its last element; the step of idx after it, whose result nothing reads,
\* has wrapped.
C18_Witness ==
    /\ cfg.kernel = "legacy" /\ cfg.N = Int32Max /\ blockIdx = cfg.grid - 1
    /\ unit_pc = "done" /\ Len(Invoked(unit_trace)) = cfg.vt /\ unit_idx < 0

\* C19: in the collapsed 1-D profile every byte offset the element function
\* computes for an operand, strides[i] * idx with the inner stride narrowed to
\* int and the product taken in int, is the product of the operand's 64-bit
\* inner stride and idx.
C19_ByteOffsets ==
    \A p \in 1..Len(unit_offsets) :
       \A j \in 1..Len(cfg.inner_strides) :
          unit_offsets[p].offsets[j] = wide_mul(cfg.inner_strides[j], unit_offsets[p].idx)

\* An offset of 2^31 bytes or more has been computed.
C19_Witness ==
    /\ cfg.collapsed /\ Len(unit_offsets) > 0
    /\ \E j \in 1..Len(cfg.inner_strides) :
          ~fits_int(wide_mul(cfg.inner_strides[j], unit_offsets[1].idx))

\* C19 within the int range: when inner stride * idx is a value of int for
\* every operand, the offsets computed are those products.
C19_ByteOffsetsInRange ==
    \A p \in 1..Len(unit_offsets) :
       (\A j \in 1..Len(cfg.inner_strides) :
           /\ fits_int(cfg.inner_strides[j])
           /\ fits_int(wide_mul(cfg.inner_strides[j], unit_offsets[p].idx)))
         => \A j \in 1..Len(cfg.inner_strides) :
               unit_offsets[p].offsets[j]
                 = wide_mul(cfg.inner_strides[j], unit_offsets[p].idx)

\* ------------------------------------------- claims on the caller's iterator

\* The operands of it without operand arg (0-based).
Without(it, arg) ==
    [p \in 1..(Len(it.ops) - 1) |-> it.ops[IF p <= arg THEN p ELSE p + 1]]

\* C20: gpu_kernel and gpu_kernel_with_index never change the operand list of
\* the caller's iterator.  gpu_kernel_with_scalars removes exactly the lifted
\* host scalar (operand 1 if it is one, otherwise operand 2 if it is) and
\* leaves 2 operands; it removes nothing when neither input is a host scalar
\* or when the operand-count assertion fails.
C20_OperandFrame ==
    /\ entry \in {"gpu_kernel", "gpu_kernel_with_index"} => iter.ops = iter0.ops
    /\ entry = "gpu_kernel_with_scalars"
         => /\ iter.shape = iter0.shape
            /\ IF pc = "call" \/ ntensors(iter0) # 3
               THEN iter.ops = iter0.ops
               ELSE IF LiftedOperand(iter0) = -1
               THEN iter.ops = iter0.ops
               ELSE /\ ntensors(iter) = 2
                    /\ iter.ops = Without(iter0, LiftedOperand(iter0))
            /\ (ntensors(iter0) # 3 /\ pc # "call")
                 => pc = "fatal" /\ failure = "gpu_kernel_with_scalars: ntensors"

\* A call that lifted operand 2 has returned with the output and operand 1
\* left in the iterator, after dispatching on them.
C20_Witness ==
    /\ entry = "gpu_kernel_with_scalars" /\ ntensors(iter0) = 3
    /\ ~is_cpu_scalar(iter0, 1) /\ is_cpu_scalar(iter0, 2)
    /\ pc = "returned" /\ launches # <<>>
    /\ iter.ops = <<iter0.ops[1], iter0.ops[2]>>

\* ------------------------------------------------------- claims on pickle

\* The methods of the Pickler a call of pickle_stream is to perform.
Framing(table) ==
    IF table = "null"
    THEN <<"torchSaveStart", "protocol", "pushIValue", "stop", "torchSaveStop">>
    ELSE <<"protocol", "pushIValue", "stop">>

RECURSIVE Concat(_)
\* The bytes of a sequence of chunks, in order.
Concat(chunks) ==
    IF chunks = <<>> THEN <<>> ELSE Head(chunks) \o Concat(Tail(chunks))

\* C21: every call of pickle_stream performs protocol, pushIValue and stop,
\* in that order and once each; with a null tensor table torchSaveStart comes
\* before protocol and torchSaveStop after stop, with a tensor table neither
\* is performed.  pickle returns the concatenation, in call order, of every
\* chunk passed to the writer.
C21_FramingOrder ==
    /\ Len(pickler_calls) <= Len(Framing(tensor_table))
    /\ pickler_calls = SubSeq(Framing(tensor_table), 1, Len(pickler_calls))
    /\ pickle_pc \in {"return", "returned"} => pickler_calls = Framing(tensor_table)
    /\ (pickle_pc \notin {"idle", "pickle", "return", "returned"}
          /\ Len(pickler_calls) < Len(Framing(tensor_table)))
         => pickle_pc = Framing(tensor_table)[Len(pickler_calls) + 1]
    /\ data = Concat(writer_calls)
    /\ pickle_pc = "returned" => pickled = Concat(writer_calls)
    /\ pickle_pc # "returned" => pickled = <<>>

\* A call without a tensor table has returned the bytes of two different
\* chunks, the second written by a later method than the first.
C21_Witness ==
    /\ pickle_pc = "returned" /\ tensor_table = "null"
    /\ Len(pickler_calls) = 5
    /\ Len(writer_calls) >= 2
    /\ writer_calls[1] # <<>> /\ writer_calls[2] # <<>>
    /\ writer_calls[1] # writer_calls[2]
    /\ pickled = writer_calls[1] \o Concat(Tail(writer_calls))

\* A call with a tensor table has returned without the torch.save framing.
C21_WitnessTable ==
    /\ pickle_pc = "returned" /\ tensor_table = "table"
    /\ pickler_calls = <<"protocol", "pushIValue", "stop">>
    /\ pickled # <<>>

====
